---- MODULE Spec2Model ----
(***************************************************************************)
(* sitro: the same PDF rendered through several backends and laid out      *)
(* side by side.  Three parts of the program are modelled:                 *)
(*   - render_via_cli, the process bridge shared by the CLI backends       *)
(*     (src/src/renderer.rs), under SpecBridge;                            *)
(*   - the border arithmetic of Renderer::render_as_pixmap, under          *)
(*     SpecBorder, and its results and failures, under SpecPixmap;         *)
(*   - main's fan-out over documents and backends and its composite        *)
(*     assembly (src/src/main.rs), under SpecDoc and SpecMain.             *)
(***************************************************************************)
EXTENDS Integers, Sequences, FiniteSets, TLC

VARIABLES
    \* ---- render_via_cli ----
    renderer,      \* the backend whose render_* function was called
    envSet,        \* whether the backend's *_BIN environment key is set
    pc,            \* position inside render_via_cli
    dir,           \* the TempDir: "none" | "live" | "removed"
    contents,      \* the directory's content: file name -> what it holds
    staged,        \* whether file.pdf was written to the directory
    spawned,       \* number of processes spawned
    written,       \* what the external process left in the directory
    entries,       \* paths the directory scan yielded, in enumeration order
    out_files,     \* the sorted (num, path) pairs
    result,        \* what the call gave its caller
    \* ---- the border arithmetic of render_as_pixmap ----
    page,          \* (width, height) of the decoded PNG
    pixmap,        \* (width, height) of the bordered pixmap; <<>> before
    \* ---- one call of render_as_pixmap ----
    call,          \* its receiver, what render_as_png gives, border_width
    ret,           \* what the call gave its caller
    \* ---- main ----
    threads,       \* rayon's current_num_threads()
    files,         \* the documents WalkDir found, in order
    behaviour,     \* behaviour[d][j]: what render_as_png gives for document d
                   \* on backend j
    mainst,        \* main: "start" | "running" | "returned" | "panicked"
    leaves,        \* the ranges of `files` that for_each folds sequentially
    docst,         \* per document: "pending" | "rendering" | "composing" |
                   \*               "done" | "panicked"
    rleaves,       \* per document: the ranges of `renderers` folded sequentially
    rend,          \* rend[d][j]: "pending" | "done" | "panicked"
    completed,     \* per document: the backends in the order their renders ended
    rendered_pages,\* per document: one Vec<Pixmap> per backend
    loop_i,        \* per document: the page index `i` of the composite loop
    persisted      \* the composites saved so far

bridgeVars == <<renderer, envSet, pc, dir, contents, staged, spawned, written,
                entries, out_files, result>>

borderVars == <<page, pixmap, call, ret>>

mainVars == <<threads, files, behaviour, mainst, leaves, docst, rleaves, rend,
              completed, rendered_pages, loop_i, persisted>>

vars == <<bridgeVars, borderVars, mainVars>>

----------------------------------------------------------------------------
(* Bounds *)

\* the largest page width and height the border arithmetic is checked on
MaxDim == 200

\* rayon's pool has between 1 and MaxThreads threads
MaxThreads == 2

\* a backend renders at most this many pages of a document
MaxPages == 2

\* number of documents of the corpus under SpecMain
NumDocs == 3

\* the external process leaves at most this many entries in the workspace
MaxFiles == 2

\* i32::MAX, the largest page index `parse::<i32>` accepts
I32Max == 2147483647

----------------------------------------------------------------------------
(* Backends *)

CliRenderers ==
    {"Pdfium", "Mupdf", "Poppler", "Quartz", "Pdfjs", "Pdfbox", "Ghostscript"}

\* the environment key each render_* function reads with env::var
EnvKey(r) ==
    CASE r = "Pdfium"      -> "PDFIUM_BIN"
      [] r = "Ghostscript" -> "GHOSTSCRIPT_BIN"
      [] r = "Mupdf"       -> "MUPDF_BIN"
      [] r = "Poppler"     -> "POPPLER_BIN"
      [] r = "Quartz"      -> "QUARTZ_BIN"
      [] r = "Pdfjs"       -> "PDFJS_BIN"
      [] r = "Pdfbox"      -> "PDFBOX_BIN"

\* File names are sequences of characters.
Lit_out == <<"o", "u", "t", "-">>
Lit_dash == <<"-">>
Lit_png == <<"p", "n", "g">>

\* out_file_pattern: <lit>(\d+).<tail>, given by its two literals
OutFilePattern(r) ==
    IF r \in {"Pdfium", "Ghostscript", "Mupdf"}
    THEN [lit |-> Lit_out, tail |-> Lit_png]     \* (?m)out-(\d+).png
    ELSE [lit |-> Lit_dash, tail |-> Lit_png]    \* (?m)-(\d+).png

----------------------------------------------------------------------------
(* regex::Regex::captures and str::parse::<i32> *)

AsciiDigits == {"0", "1", "2", "3", "4", "5", "6", "7", "8", "9"}

\* \d, over the ASCII characters the modelled file names are made of
IsDigit(c) == c \in AsciiDigits

DigitValue(c) ==
    CASE c = "0" -> 0 [] c = "1" -> 1 [] c = "2" -> 2 [] c = "3" -> 3
      [] c = "4" -> 4 [] c = "5" -> 5 [] c = "6" -> 6 [] c = "7" -> 7
      [] c = "8" -> 8 [] c = "9" -> 9

HasLiteral(name, p, lit) ==
    /\ p + Len(lit) - 1 <= Len(name)
    /\ \A k \in 1..Len(lit) : name[p + k - 1] = lit[k]

\* the pattern matches at position p with a digit run of length n
MatchAt(pat, name, p, n) ==
    LET d == p + Len(pat.lit)      \* first digit
        a == d + n                 \* the character `.` consumes
    IN  /\ HasLiteral(name, p, pat.lit)
        /\ a <= Len(name)
        /\ \A k \in d..(a - 1) : IsDigit(name[k])
        /\ name[a] # "\n"
        /\ HasLiteral(name, a + 1, pat.tail)

\* \d+ is greedy: the longest digit run for which the rest still matches
RunAt(pat, name, p) ==
    LET ok == {n \in 1..Len(name) : MatchAt(pat, name, p, n)}
    IN  IF ok = {} THEN 0 ELSE CHOOSE n \in ok : \A m \in ok : m <= n

\* captures(name): group 1 of the leftmost match; <<>> when there is none
Captures(pat, name) ==
    LET starts == {p \in 1..Len(name) : RunAt(pat, name, p) > 0}
    IN  IF starts = {} THEN <<>>
        ELSE LET p == CHOOSE q \in starts : \A s \in starts : q <= s
                 d == p + Len(pat.lit)
             IN  SubSeq(name, d, d + RunAt(pat, name, p) - 1)

RECURSIVE ParseAcc(_, _)
\* checked decimal accumulation; -1 is the Err of parse::<i32>
ParseAcc(ds, acc) ==
    IF ds = <<>> THEN acc
    ELSE IF Head(ds) \notin AsciiDigits THEN -1
    ELSE LET v == DigitValue(Head(ds))
         IN  IF acc > (I32Max - v) \div 10 THEN -1
             ELSE ParseAcc(Tail(ds), acc * 10 + v)

ParseI32(ds) == IF ds = <<>> THEN -1 ELSE ParseAcc(ds, 0)

\* the body of the filter_map closure over one path: the parsed page index,
\* -1 where the closure gives None
PageIndex(pat, name) ==
    LET cap == Captures(pat, name)
    IN  IF cap = <<>> THEN -1 ELSE ParseI32(cap)

----------------------------------------------------------------------------
(* The workspace of one render_via_cli call *)

InputName == <<"f", "i", "l", "e", ".", "p", "d", "f">>

OutName(ds, sep, ext) == Lit_out \o ds \o <<sep>> \o ext

\* names an external renderer may leave behind
OutputNames ==
    { OutName(<<"1">>, ".", Lit_png),                 \* out-1.png
      OutName(<<"2">>, ".", Lit_png),                 \* out-2.png
      OutName(<<"0", "1">>, ".", Lit_png),            \* out-01.png
      OutName(<<"1", "0">>, ".", Lit_png),            \* out-10.png
      OutName(<<"2", "1", "4", "7", "4", "8", "3", "6", "4", "8">>, ".", Lit_png),
      OutName(<<"3">>, "x", Lit_png),                 \* out-3xpng
      OutName(<<"4">>, ".", <<"t", "x", "t">>),       \* out-4.txt
      OutName(<<"1">>, "2", Lit_png),                 \* out-12png
      <<"p", "-", "2", ".", "p", "n", "g">> }         \* p-2.png

\* what a directory entry holds: the bytes of a file, or a sub-directory
FileOf(name) == [kind |-> "file", bytes |-> name]
DirEntry == [kind |-> "dir", bytes |-> <<>>]

\* what the external process may leave in the directory: at most MaxFiles
\* entries, at most one of them a directory
ProcessOutputs ==
    LET sets == {S \in SUBSET OutputNames : Cardinality(S) <= MaxFiles}
    IN  UNION { { [n \in S |-> IF n = d THEN DirEntry ELSE FileOf(n)]
                  : d \in S \cup {<<>>} } : S \in sets }

Injective(s) == \A i, j \in DOMAIN s : i # j => s[i] # s[j]

\* the orders in which read_dir may yield (some of) the entries of a set
Enumerations(S) ==
    UNION { {s \in [1..Cardinality(T) -> T] : Injective(s)} : T \in SUBSET S }

NoResult == [kind |-> "none", pages |-> <<>>, msg |-> ""]
OkResult(pages) == [kind |-> "Ok", pages |-> pages, msg |-> ""]
ErrResult(msg) == [kind |-> "Err", pages |-> <<>>, msg |-> msg]
PanicResult(msg) == [kind |-> "Panic", pages |-> <<>>, msg |-> msg]

\* a leak: the directory is removed only by the final Ok return
DropOnlyOnOk(exit) == IF exit = "Ok" THEN "removed" ELSE "live"

\* `dir` goes out of scope on every exit of render_via_cli (return, `?`,
\* unwinding from an unwrap): TempDir's Drop removes the directory
DropTempDir(exit) == "removed"

\* leaving render_via_cli with result res
Leave(res) ==
    /\ pc' = "done"
    /\ result' = res
    /\ dir' = IF dir = "live" THEN DropTempDir(res.kind) ELSE dir
    /\ contents' = << >>

\* the map_err of each render_* closure
SpawnError(r) ==
    IF r = "Mupdf" THEN "os error" ELSE "failed to run renderer: os error"

RECURSIVE InsertUnstable(_, _)
\* inserts before the entries of equal key
InsertUnstable(e, s) ==
    IF s = <<>> THEN <<e>>
    ELSE IF Head(s)[1] < e[1] THEN <<Head(s)>> \o InsertUnstable(e, Tail(s))
    ELSE <<e>> \o s

RECURSIVE Insert(_, _)
\* inserts e after every entry whose key is <= e's key
Insert(e, s) ==
    IF s = <<>> THEN <<e>>
    ELSE IF Head(s)[1] <= e[1] THEN <<Head(s)>> \o Insert(e, Tail(s))
    ELSE <<e>> \o s

RECURSIVE SortFrom(_, _)
SortFrom(s, acc) ==
    IF s = <<>> THEN acc ELSE SortFrom(Tail(s), Insert(Head(s), acc))

\* no sort at all: enumeration order
SortSkipped(s) == s

\* sort_by_key(|e| e.0): a stable sort on the page index
SortByKey(s) == SortFrom(s, <<>>)

\* PageIndex of every name a directory can hold, evaluated once
IndexTable ==
    [r \in CliRenderers |->
        [n \in OutputNames \cup {InputName} |-> PageIndex(OutFilePattern(r), n)]]

RECURSIVE FilterMap(_, _)
\* the filter_map over the scanned paths
FilterMap(r, s) ==
    IF s = <<>> THEN <<>>
    ELSE LET num == IndexTable[r][Head(s)]
         IN  (IF num < 0 THEN <<>> ELSE << <<num, Head(s)>> >>)
             \o FilterMap(r, Tail(s))

----------------------------------------------------------------------------
(* render_via_cli, step by step *)

\* the parts of the state a specification does not use stay as they are here
BorderIdle == page = <<>> /\ pixmap = <<>> /\ call = <<>> /\ ret = NoResult

MainIdle ==
    /\ threads = 1
    /\ files = <<>>
    /\ behaviour = <<>>
    /\ mainst = "start"
    /\ leaves = {}
    /\ docst = <<>>
    /\ rleaves = <<>>
    /\ rend = <<>>
    /\ completed = <<>>
    /\ rendered_pages = <<>>
    /\ loop_i = <<>>
    /\ persisted = {}

BridgeStart ==
    /\ pc = "call"
    /\ dir = "none"
    /\ contents = << >>
    /\ staged = FALSE
    /\ spawned = 0
    /\ written = << >>
    /\ entries = <<>>
    /\ out_files = <<>>
    /\ result = NoResult

BridgeIdle == renderer = "Pdfium" /\ envSet = TRUE /\ BridgeStart

BridgeInit ==
    /\ renderer \in CliRenderers
    /\ envSet \in BOOLEAN
    /\ BridgeStart
    /\ BorderIdle
    /\ MainIdle

\* TempDir::new("sitro").unwrap()
CreateTempDir ==
    /\ pc = "call"
    /\ \/ /\ pc' = "created"
          /\ dir' = "live"
          /\ UNCHANGED <<contents, result>>
       \/ Leave(PanicResult("TempDir::new"))
    /\ UNCHANGED <<renderer, envSet, staged, spawned, written, entries, out_files>>
    /\ UNCHANGED <<borderVars, mainVars>>

\* File::create(&input_path).unwrap(); input_file.write(buf).unwrap()
StageInput ==
    /\ pc = "created"
    /\ \/ /\ pc' = "staged"
          /\ contents' = (InputName :> FileOf(InputName))
          /\ staged' = TRUE
          /\ UNCHANGED <<dir, result>>
       \/ /\ Leave(PanicResult("File::create"))
          /\ UNCHANGED staged
    /\ UNCHANGED <<renderer, envSet, spawned, written, entries, out_files>>
    /\ UNCHANGED <<borderVars, mainVars>>

\* command_fn(&input_path, &output_dir)?
RunCommand ==
    /\ pc = "staged"
    /\ IF ~envSet
       THEN \* env::var(KEY).unwrap() inside the closure
            /\ Leave(PanicResult(EnvKey(renderer)))
            /\ UNCHANGED <<spawned, written>>
       ELSE \/ \* Command::output() fails: the closure's Err is returned by `?`
               /\ Leave(ErrResult(SpawnError(renderer)))
               /\ UNCHANGED <<spawned, written>>
            \/ \* the process ran and left its outputs beside file.pdf
               \E w \in ProcessOutputs :
                   /\ contents' = [n \in DOMAIN contents \cup DOMAIN w |->
                                   IF n \in DOMAIN w THEN w[n] ELSE contents[n]]
                   /\ written' = w
                   /\ spawned' = spawned + 1
                   /\ pc' = "ran"
                   /\ UNCHANGED <<dir, result>>
    /\ UNCHANGED <<renderer, envSet, staged, entries, out_files>>
    /\ UNCHANGED <<borderVars, mainVars>>

\* fs::read_dir(..).map_err(|_| "")? ... .collect(); out_files.sort_by_key(..)
ScanDir ==
    /\ pc = "ran"
    /\ \/ /\ Leave(ErrResult(""))
          /\ UNCHANGED <<entries, out_files>>
       \/ \E es \in Enumerations(DOMAIN contents) :
              /\ entries' = es
              /\ out_files' = SortByKey(FilterMap(renderer, es))
              /\ pc' = "scanned"
              /\ UNCHANGED <<dir, contents, result>>
    /\ UNCHANGED <<renderer, envSet, staged, spawned, written>>
    /\ UNCHANGED <<borderVars, mainVars>>

\* out_files.iter().map(|e| fs::read(&e.1).unwrap()).collect(); Ok(out_files)
ReadFiles ==
    /\ pc = "scanned"
    /\ IF \E k \in DOMAIN out_files : contents[out_files[k][2]].kind # "file"
       THEN Leave(PanicResult("fs::read"))
       ELSE Leave(OkResult([k \in DOMAIN out_files |->
                               contents[out_files[k][2]].bytes]))
    /\ UNCHANGED <<renderer, envSet, staged, spawned, written, entries, out_files>>
    /\ UNCHANGED <<borderVars, mainVars>>

BridgeNext == CreateTempDir \/ StageInput \/ RunCommand \/ ScanDir \/ ReadFiles

SpecBridge == BridgeInit /\ [][BridgeNext]_vars

----------------------------------------------------------------------------
(* Properties of render_via_cli *)

Returned == pc = "done"

\* everything the directory held when it was scanned
Left == [n \in DOMAIN written \cup {InputName} |->
            IF n \in DOMAIN written THEN written[n] ELSE FileOf(InputName)]

Range(s) == {s[k] : k \in DOMAIN s}

Perms(S) == {s \in [1..Cardinality(S) -> S] : Injective(s)}

\* names the backend's pattern matches, whatever the captured digits are
CaptureTable ==
    [r \in CliRenderers |->
        [n \in OutputNames \cup {InputName} |->
            Captures(OutFilePattern(r), n) # <<>>]]

\* position of a name in the enumeration
PosIn(s, n) == CHOOSE k \in DOMAIN s : s[k] = n

\* pages holds the bytes of exactly the files of M, one page per file, in an
\* order f
HoldsExactly(pages, M, f) ==
    /\ Len(pages) = Cardinality(M)
    /\ \A k \in DOMAIN pages : pages[k] = Left[f[k]].bytes

\* C1 (as claimed): with the configuration key unset the call returns a
\* ConfigMissing error, and no workspace is created, no input staged and no
\* process spawned on the way.
C1_ConfigMissingFirst ==
    ~envSet =>
        /\ dir = "none"
        /\ ~staged
        /\ spawned = 0
        /\ Returned => (result.kind = "Err" /\ result.msg = "ConfigMissing")

\* C2: once a render_via_cli call has returned, by whatever exit, the
\* directory it created no longer exists.
C2_WorkspaceRemoved == Returned => dir # "live"

\* C2 witness: the call aborted while reading the outputs, after it had
\* created and filled its directory, and the directory is gone.
C2_Witness ==
    /\ Returned
    /\ result.kind = "Panic"
    /\ result.msg = "fs::read"
    /\ staged
    /\ dir = "removed"

\* C3 (as claimed): when read_dir lists every file, the result holds the
\* bytes of exactly the files whose names match the pattern, in ascending
\* order of the parsed page index.
C3_Original ==
    (Returned /\ result.kind = "Ok" /\ Range(entries) = DOMAIN Left) =>
        LET M == {n \in DOMAIN Left :
                     Left[n].kind = "file" /\ CaptureTable[renderer][n]}
        IN  \E f \in Perms(M) :
                /\ HoldsExactly(result.pages, M, f)
                /\ \A j, k \in DOMAIN f :
                       j < k => IndexTable[renderer][f[j]] <=
                                    IndexTable[renderer][f[k]]

\* the files the scan yielded whose page index parsed as an i32
Harvested == {n \in Range(entries) : IndexTable[renderer][n] >= 0}

\* C3 (amended): the result holds the bytes of exactly the files that the
\* scan yielded, whose names match the pattern and whose captured digits
\* parse as an i32, in non-decreasing order of that page index.
C3_SortedHarvest ==
    (Returned /\ result.kind = "Ok") =>
        \E f \in Perms(Harvested) :
            /\ HoldsExactly(result.pages, Harvested, f)
            /\ \A j, k \in DOMAIN f :
                   j < k => IndexTable[renderer][f[j]] <=
                                IndexTable[renderer][f[k]]

\* C3 witness: a returned call whose sort changed the enumeration order of
\* two harvested files.
C3_Witness ==
    /\ Returned
    /\ result.kind = "Ok"
    /\ Len(result.pages) >= 2
    /\ \E a, b \in Harvested :
           /\ PosIn(entries, a) < PosIn(entries, b)
           /\ IndexTable[renderer][a] > IndexTable[renderer][b]

\* the distinct page indices among the harvested files
HarvestedIndices == {IndexTable[renderer][n] : n \in Harvested}

\* the file of page index i that the enumeration yielded last
LastOf(i) ==
    CHOOSE n \in Harvested :
        /\ IndexTable[renderer][n] = i
        /\ \A m \in Harvested :
               IndexTable[renderer][m] = i => PosIn(entries, m) <= PosIn(entries, n)

\* C9 (as claimed): the result holds one page per distinct page index, the
\* bytes of the file of that index enumerated last.
C9_Original ==
    (Returned /\ result.kind = "Ok") =>
        /\ Len(result.pages) = Cardinality(HarvestedIndices)
        /\ \A i \in HarvestedIndices :
               \E k \in DOMAIN result.pages :
                   result.pages[k] = Left[LastOf(i)].bytes

\* C9 (amended): files of equal page index are all kept, one page each, in
\* the order the enumeration yielded them, so the result is as long as the
\* number of harvested files.
C9_DuplicatesKept ==
    (Returned /\ result.kind = "Ok") =>
        \E f \in Perms(Harvested) :
            /\ HoldsExactly(result.pages, Harvested, f)
            /\ \A j, k \in DOMAIN f :
                   (/\ IndexTable[renderer][f[j]] = IndexTable[renderer][f[k]]
                    /\ PosIn(entries, f[j]) < PosIn(entries, f[k])) => j < k

\* C9 witness: a returned call that harvested two files of one page index.
C9_Witness ==
    /\ Returned
    /\ result.kind = "Ok"
    /\ \E a, b \in Harvested :
           a # b /\ IndexTable[renderer][a] = IndexTable[renderer][b]

----------------------------------------------------------------------------
(* f32 arithmetic: a value is <<m, e>>, standing for m * 2^e, m < 2^24 *)

RECURSIVE BitLen(_)
\* number of binary digits of n
BitLen(n) == IF n = 0 THEN 0 ELSE 1 + BitLen(n \div 2)

\* round-half-to-even of q + r/d, given the quotient q and remainder r
RoundEven(q, r, d) ==
    IF 2 * r > d \/ (2 * r = d /\ q % 2 = 1) THEN q + 1 ELSE q

\* a / b in f32, for small positive integers a, b (1.0 / 50.0)
F32Div(a, b) ==
    LET k == CHOOSE j \in 0..30 :
                 /\ (a * 2^j) \div b >= 2^23
                 /\ (a * 2^j) \div b < 2^24
    IN  <<RoundEven((a * 2^k) \div b, (a * 2^k) % b, b), -k>>

\* n as f32 * x in f32, for an integer n < 2^15; the product n * x[1] is
\* formed in two halves, so that no intermediate value exceeds 31 bits
F32Mul(n, x) ==
    LET Quot(s) == n * (x[1] \div 2^s) + (n * (x[1] % 2^s)) \div 2^s
        s0 == IF BitLen(n) = 0 THEN 0 ELSE BitLen(n) - 1
        s == IF Quot(s0) < 2^24 THEN s0 ELSE s0 + 1
    IN  <<RoundEven(Quot(s), (n * (x[1] % 2^s)) % 2^s, 2^s), x[2] + s>>

\* floor of a non-negative f32 value
F32Floor(x) == IF x[2] >= 0 THEN x[1] * 2^x[2] ELSE x[1] \div 2^(-x[2])

\* w as f32 + x in f32, for an integer 1 <= w and a sum below 2^24: the sum
\* is rounded to the 24 bits that start at its leading bit
F32Add(w, x) ==
    LET E == BitLen(w + F32Floor(x)) - 1     \* exponent of the sum
        u == 23 - E                          \* the sum's ulp is 2^-u
        t == (-x[2]) - u                     \* bits of x below the ulp
    IN  IF t <= 0 THEN <<w * 2^u + x[1] * 2^(-t), -u>>
        ELSE <<RoundEven(w * 2^u + x[1] \div 2^t, x[1] % 2^t, 2^t), -u>>

\* `as u32` of a non-negative f32 value: truncation
AsU32(x) == F32Floor(x)

Min(a, b) == IF a <= b THEN a ELSE b

----------------------------------------------------------------------------
(* Renderer::render_as_pixmap: the bordered canvas *)

\* main passes Some(1.0 / 50.0)
BorderNum == 1
BorderDen == 50

\* the border is added on both sides of each dimension
ActualSizeBothSides(width, height, border_width) ==
    LET b == F32Mul(Min(width, height), border_width)
    IN  <<AsU32(F32Add(width, b)) + AsU32(b),
          AsU32(F32Add(height, b)) + AsU32(b)>>

\* (actual_width as u32, actual_height as u32), where
\* border_width = min(width as u32, height as u32) as f32 * border_width
ActualSize(width, height, border_width) ==
    LET b == F32Mul(Min(width, height), border_width)
    IN  <<AsU32(F32Add(width, b)), AsU32(F32Add(height, b))>>

BorderInit ==
    /\ page \in (1..MaxDim) \X (1..MaxDim)
    /\ pixmap = <<>>
    /\ call = <<>>
    /\ ret = NoResult
    /\ BridgeIdle
    /\ MainIdle

\* one pass of the loop body: Pixmap::new(actual_width as u32, actual_height as u32)
Annotate ==
    /\ pixmap = <<>>
    /\ pixmap' = ActualSize(page[1], page[2], F32Div(BorderNum, BorderDen))
    /\ UNCHANGED <<page, call, ret, bridgeVars, mainVars>>

BorderNext == Annotate

SpecBorder == BorderInit /\ [][BorderNext]_vars

\* C8: a page of size (w, h) annotated with border fraction f = 1/50 gets a
\* canvas of size (w + b, h + b), where b = floor(min(w, h) * f).
C8_BorderedSize ==
    pixmap # <<>> =>
        LET b == (Min(page[1], page[2]) * BorderNum) \div BorderDen
        IN  pixmap = <<page[1] + b, page[2] + b>>

\* C8 witness: the page of 100 x 200 annotated to 102 x 202.
C8_Witness == page = <<100, 200>> /\ pixmap = <<102, 202>>

----------------------------------------------------------------------------
(* Renderer: identity colour and render_as_pixmap *)

\* the `renderers` vector of main
Renderers == <<"Ghostscript", "Pdfium", "Quartz">>

NR == Len(Renderers)

\* Renderer::color
Color(r) ==
    CASE r = "Pdfium"      -> <<79, 184, 35>>
      [] r = "Mupdf"       -> <<34, 186, 184>>
      [] r = "Poppler"     -> <<227, 137, 20>>
      [] r = "Quartz"      -> <<234, 250, 60>>
      [] r = "Pdfjs"       -> <<48, 17, 207>>
      [] r = "Pdfbox"      -> <<237, 38, 98>>
      [] r = "Ghostscript" -> <<235, 38, 218>>
      [] r = "Hayro"       -> <<100, 149, 237>>

\* A rendered page (PNG bytes) is given by its size <<w, h>>; <<>> stands for
\* bytes that are no PNG.
IsPng(png) == png # <<>>

\* the pixmap the loop body builds for one page: grown canvas, border
\* stroked in the backend's colour
Bordered(r, png, border_width) ==
    LET size == ActualSize(png[1], png[2], border_width)
    IN  [width |-> size[1], height |-> size[2], color |-> Color(r)]

\* Pixmap::decode_png of a page, without border
Decoded(png) == [width |-> png[1], height |-> png[2], color |-> <<>>]

\* Renderer::render_as_pixmap(buf, options, border_width) on the result png
\* of self.render_as_png(buf, options); border_width is <<>> for None
RenderAsPixmap(r, png, border_width) ==
    IF png.kind # "Ok" THEN png                          \* `?`, or the panic
    ELSE IF border_width = <<>>
    THEN IF \A k \in DOMAIN png.pages : IsPng(png.pages[k])
         THEN OkResult([k \in DOMAIN png.pages |-> Decoded(png.pages[k])])
         ELSE ErrResult("unable to generate pixmap")
    ELSE IF \A k \in DOMAIN png.pages : IsPng(png.pages[k])
         THEN OkResult([k \in DOMAIN png.pages |->
                           Bordered(r, png.pages[k], border_width)])
         ELSE PanicResult("decode_png")                  \* .unwrap()

----------------------------------------------------------------------------
(* main: paths *)

\* the last component of root_dir
Pdf == <<"p", "d", "f">>

\* documents below root_dir, as the components from root_dir down
PathUniverse ==
    << <<Pdf, <<"a">>, <<"d", "-", "1", ".", "p", "d", "f">> >>,   \* pdf/a/d-1.pdf
       <<Pdf, <<"a">>, <<"d", ".", "p", "d", "f">> >>,             \* pdf/a/d.pdf
       <<Pdf, <<"b">>, <<"a">>, <<"d", ".", "p", "d", "f">> >>,    \* pdf/b/a/d.pdf
       <<Pdf, <<"d", ".", "p", "d", "f">> >> >>                    \* pdf/d.pdf

\* Path::file_name of a path: its last component
FileName(path) == path[Len(path)]

\* Path::parent
Parent(path) == SubSeq(path, 1, Len(path) - 1)

\* Path::file_stem: the name up to its last dot, the whole name when it has
\* no dot or only a leading one
FileStem(path) ==
    LET name == FileName(path)
        dots == {k \in DOMAIN name : name[k] = "."}
        last == CHOOSE k \in dots : \A q \in dots : q <= k
    IN  IF dots = {} \/ last = 1 THEN name ELSE SubSeq(name, 1, last - 1)

DigitChar(d) ==
    CASE d = 0 -> "0" [] d = 1 -> "1" [] d = 2 -> "2" [] d = 3 -> "3"
      [] d = 4 -> "4" [] d = 5 -> "5" [] d = 6 -> "6" [] d = 7 -> "7"
      [] d = 8 -> "8" [] d = 9 -> "9"

RECURSIVE Decimal(_)
\* format!("{}", n)
Decimal(n) ==
    IF n < 10 THEN <<DigitChar(n)>>
    ELSE Decimal(n \div 10) \o <<DigitChar(n % 10)>>

\* test/<name of the parent directory>/<stem>-<n>.png
PersistPath(pdf_path, n) ==
    << <<"t", "e", "s", "t">>,
       FileName(Parent(pdf_path)),
       FileStem(pdf_path) \o <<"-">> \o Decimal(n) \o <<".">> \o Lit_png >>

----------------------------------------------------------------------------
(* main: rayon's splitting of a parallel iterator *)

Max(a, b) == IF a >= b THEN a ELSE b

RECURSIVE LeafSets(_, _, _, _)
\* The ways bridge_producer_consumer may cut the items lo..hi into the
\* ranges it folds sequentially.  A range of two or more items is halved
\* while its splitter has splits left, or whenever the job was stolen by
\* another thread (which also refills the splits).
LeafSets(lo, hi, splits, migrated) ==
    LET len == hi - lo + 1
        mid == len \div 2
        s2 == IF migrated THEN Max(splits \div 2, threads) ELSE splits \div 2
    IN  IF mid >= 1 /\ (migrated \/ splits > 0)
        THEN {L \cup R :
                 L \in LeafSets(lo, lo + mid - 1, s2, FALSE),
                 R \in LeafSets(lo + mid, hi, s2, FALSE)
                       \cup (IF threads >= 2
                             THEN LeafSets(lo + mid, hi, s2, TRUE) ELSE {})}
        ELSE {{<<lo, hi>>}}

\* a range is over when all its items are done, or when one panicked: the
\* unwinding leaves the sequential fold, and the items after it are never run
LeafOver(leaf, st) ==
    \/ \A q \in leaf[1]..leaf[2] : st[q] = "done"
    \/ \E q \in leaf[1]..leaf[2] : st[q] = "panicked"

\* item k is the next one of its range: the items before it are done.  A
\* pool of one thread runs the ranges one after the other, left to right;
\* with more threads any range may be stolen and run at any time.
CanStart(ls, st, k) ==
    /\ \E leaf \in ls :
           /\ leaf[1] <= k /\ k <= leaf[2]
           /\ \A q \in leaf[1]..(k - 1) : st[q] = "done"
    /\ threads = 1 => \A leaf \in ls : leaf[2] < k => LeafOver(leaf, st)

----------------------------------------------------------------------------
(* main: the closure run for every document *)

Docs == DOMAIN files

\* Some(1.0 / 50.0)
BorderWidth == F32Div(BorderNum, BorderDen)

\* the results pushed in the order the renders end
CollectPush(d, j, v) ==
    [rendered_pages[d] EXCEPT ![Len(completed[d]) + 1] = v]

\* collect::<Vec<_>>() of an indexed parallel iterator: the result of item j
\* is written to slot j
CollectInto(d, j, v) == [rendered_pages[d] EXCEPT ![j] = v]

RECURSIVE WidthUpTo(_, _, _)
\* sum of the widths of page n of the backends 1..j
WidthUpTo(rp, n, j) ==
    IF j = 0 THEN 0 ELSE WidthUpTo(rp, n, j - 1) + rp[j][n + 1].width

RECURSIVE HeightUpTo(_, _, _)
\* max of the heights of page n of the backends 1..j
HeightUpTo(rp, n, j) ==
    IF j = 1 THEN rp[1][n + 1].height
    ELSE Max(HeightUpTo(rp, n, j - 1), rp[j][n + 1].height)

\* the width of the widest page
CompositeWidthMax(rp, n) ==
    LET ws == {rp[j][n + 1].width : j \in 1..NR}
    IN  CHOOSE w \in ws : \A v \in ws : v <= w

\* rendered_pages.iter().map(|pixmaps| pixmaps[i].width()).sum(); a pixmap
\* is less than 2^29 wide, so the u32 sum of NR widths does not wrap
CompositeWidth(rp, n) == WidthUpTo(rp, n, NR)

\* rendered_pages.iter().map(|pixmaps| pixmaps[i].height()).max().unwrap()
CompositeHeight(rp, n) == HeightUpTo(rp, n, NR)

\* the value of `cursor` when backend j is drawn; an f32, exact below 2^24
Cursor(rp, n, j) == WidthUpTo(rp, n, j - 1)

\* the composite of page n of document d, and the path it is saved to
Composite(d, n) ==
    LET rp == rendered_pages[d]
    IN  [doc |-> d,
         page |-> n,
         path |-> PersistPath(files[d], n),
         width |-> CompositeWidth(rp, n),
         height |-> CompositeHeight(rp, n),
         tiles |-> [j \in 1..NR |->
                       [x |-> Cursor(rp, n, j), y |-> 0, pixmap |-> rp[j][n + 1]]]]

\* files.par_iter().for_each(..): the documents are cut into ranges
ForEach ==
    /\ mainst = "start"
    /\ \E ls \in LeafSets(1, Len(files), threads, FALSE) : leaves' = ls
    /\ mainst' = "running"
    /\ UNCHANGED <<threads, files, behaviour, docst, rleaves, rend, completed,
                   rendered_pages, loop_i, persisted>>
    /\ UNCHANGED <<bridgeVars, borderVars>>

\* the closure starts on document d: fs::read (taken to succeed on a file
\* WalkDir has just listed), then renderers.par_iter()
StartDoc(d) ==
    /\ mainst = "running"
    /\ docst[d] = "pending"
    /\ CanStart(leaves, docst, d)
    /\ \E rl \in LeafSets(1, NR, threads, FALSE) :
           rleaves' = [rleaves EXCEPT ![d] = rl]
    /\ docst' = [docst EXCEPT ![d] = "rendering"]
    /\ UNCHANGED <<threads, files, behaviour, mainst, leaves, rend, completed,
                   rendered_pages, loop_i, persisted>>
    /\ UNCHANGED <<bridgeVars, borderVars>>

\* renderer.render_as_pixmap(&file, .., Some(1.0 / 50.0)).unwrap()
Render(d, j) ==
    /\ docst[d] = "rendering"
    /\ rend[d][j] = "pending"
    /\ CanStart(rleaves[d], rend[d], j)
    /\ LET res == RenderAsPixmap(Renderers[j], behaviour[d][j], BorderWidth)
       IN  IF res.kind = "Ok"
           THEN /\ rend' = [rend EXCEPT ![d][j] = "done"]
                /\ rendered_pages' =
                       [rendered_pages EXCEPT ![d] = CollectInto(d, j, res.pages)]
           ELSE /\ rend' = [rend EXCEPT ![d][j] = "panicked"]
                /\ UNCHANGED rendered_pages
    /\ completed' = [completed EXCEPT ![d] = Append(@, j)]
    /\ UNCHANGED <<threads, files, behaviour, mainst, leaves, docst, rleaves,
                   loop_i, persisted>>
    /\ UNCHANGED <<bridgeVars, borderVars>>

\* the parallel map is over: a panic of a render is resumed in the closure,
\* otherwise the loop `for i in 0..rendered_pages[0].len()` begins
Collect(d) ==
    /\ docst[d] = "rendering"
    /\ \A leaf \in rleaves[d] : LeafOver(leaf, rend[d])
    /\ docst' = [docst EXCEPT ![d] =
                    IF \E j \in 1..NR : rend[d][j] = "panicked" THEN "panicked"
                    ELSE IF Len(rendered_pages[d][1]) = 0 THEN "done"
                    ELSE "composing"]
    /\ UNCHANGED <<threads, files, behaviour, mainst, leaves, rleaves, rend,
                   completed, rendered_pages, loop_i, persisted>>
    /\ UNCHANGED <<bridgeVars, borderVars>>

\* one pass of the loop: size, tiles, path, save_png; `pixmaps[i]` panics
\* for a backend that has no page i
Compose(d) ==
    /\ docst[d] = "composing"
    /\ IF \E j \in 1..NR : loop_i[d] >= Len(rendered_pages[d][j])
       THEN /\ docst' = [docst EXCEPT ![d] = "panicked"]
            /\ UNCHANGED <<loop_i, persisted>>
       ELSE /\ persisted' = persisted \cup {Composite(d, loop_i[d])}
            /\ loop_i' = [loop_i EXCEPT ![d] = @ + 1]
            /\ docst' = [docst EXCEPT ![d] =
                            IF loop_i[d] + 1 < Len(rendered_pages[d][1])
                            THEN "composing" ELSE "done"]
    /\ UNCHANGED <<threads, files, behaviour, mainst, leaves, rleaves, rend,
                   completed, rendered_pages>>
    /\ UNCHANGED <<bridgeVars, borderVars>>

\* for_each is over once every range is: it returns, or resumes a panic
Join ==
    /\ mainst = "running"
    /\ \A leaf \in leaves : LeafOver(leaf, docst)
    /\ mainst' = IF \E d \in Docs : docst[d] = "panicked"
                 THEN "panicked" ELSE "returned"
    /\ UNCHANGED <<threads, files, behaviour, leaves, docst, rleaves, rend,
                   completed, rendered_pages, loop_i, persisted>>
    /\ UNCHANGED <<bridgeVars, borderVars>>

MainNext ==
    \/ ForEach
    \/ \E d \in Docs : StartDoc(d)
    \/ \E d \in Docs : \E j \in 1..NR : Render(d, j)
    \/ \E d \in Docs : Collect(d)
    \/ \E d \in Docs : Compose(d)
    \/ Join

----------------------------------------------------------------------------
(* main: the corpora and what the backends do on them *)

\* sizes of the PNG pages a backend may produce
PageSizes == {<<100, 200>>, <<148, 298>>, <<79, 89>>}

\* what render_as_png may give: an error, a panic, pages that are no PNG, or
\* up to MaxPages pages of one size
PngResults ==
    {ErrResult("failed to run renderer"), PanicResult("env::var"),
     OkResult(<< <<>> >>)}
    \cup {OkResult([k \in 1..n |-> s]) : n \in 0..MaxPages, s \in PageSizes}

\* before main runs
MainStart ==
    /\ threads \in 1..MaxThreads
    /\ mainst = "start"
    /\ leaves = {}
    /\ docst = [d \in Docs |-> "pending"]
    /\ rleaves = [d \in Docs |-> {}]
    /\ rend = [d \in Docs |-> [j \in 1..NR |-> "pending"]]
    /\ completed = [d \in Docs |-> <<>>]
    /\ rendered_pages = [d \in Docs |-> [j \in 1..NR |-> <<>>]]
    /\ loop_i = [d \in Docs |-> 0]
    /\ persisted = {}                 \* remove_dir_all("test")

\* one document, any behaviour of the three backends
DocInit ==
    /\ files \in {<<PathUniverse[k]>> : k \in DOMAIN PathUniverse}
    /\ behaviour \in [1..1 -> [1..NR -> PngResults]]
    /\ MainStart
    /\ BridgeIdle
    /\ BorderIdle

SpecDoc == DocInit /\ [][MainNext]_vars

\* a document every backend renders to one page, each at its own size
GoodDoc ==
    <<OkResult(<< <<100, 200>> >>), OkResult(<< <<148, 298>> >>),
      OkResult(<< <<79, 89>> >>)>>

\* a document the second backend fails on; a corpus has at most one
BadDoc == [GoodDoc EXCEPT ![2] = ErrResult("failed to run renderer")]

\* the corpora of n documents: n paths of PathUniverse, in its order
Corpora(n) ==
    {s \in [1..n -> Range(PathUniverse)] :
        \A a, b \in 1..n :
            a < b => PosIn(PathUniverse, s[a]) < PosIn(PathUniverse, s[b])}

CorpusInit ==
    /\ files \in Corpora(NumDocs)
    /\ behaviour \in {b \in [1..NumDocs -> {GoodDoc, BadDoc}] :
                          Cardinality({d \in 1..NumDocs : b[d] = BadDoc}) <= 1}
    /\ MainStart
    /\ BridgeIdle
    /\ BorderIdle

SpecMain == CorpusInit /\ [][MainNext]_vars

----------------------------------------------------------------------------
(* main: properties *)

\* the for_each call is over
MainOver == mainst \in {"returned", "panicked"}

\* every backend gives document d its pixmaps
RendersAll(d) ==
    \A j \in 1..NR :
        RenderAsPixmap(Renderers[j], behaviour[d][j], BorderWidth).kind = "Ok"

\* the page indices of the composites persisted for document d
PersistedPages(d) == {c.page : c \in {e \in persisted : e.doc = d}}

\* C4: when one backend fails for one document, the composites of the
\* documents on which no backend fails are all persisted by the time
\* the processing of the corpus is over.
C4_OthersUnaffected ==
    (MainOver /\ \E f \in Docs : ~RendersAll(f))
        => \A d \in Docs :
               RendersAll(d)
                   => PersistedPages(d) = 0..(Len(behaviour[d][1].pages) - 1)

\* C5: composites of distinct (document, page index) pairs are persisted
\* at distinct paths.
C5_DistinctPaths ==
    \A c1, c2 \in persisted :
        <<c1.doc, c1.page>> # <<c2.doc, c2.page>> => c1.path # c2.path

\* the bordered page backend j is expected to give for page n of document d
ExpectedPage(d, j, n) ==
    Bordered(Renderers[j], behaviour[d][j].pages[n + 1], BorderWidth)

\* C6: the width of a persisted composite is the sum of the widths of the
\* bordered pages of the backends for that page index, and its height is
\* the largest of their heights.
C6_CompositeSize ==
    \A c \in persisted :
        LET w(j) == ExpectedPage(c.doc, j, c.page).width
            h(j) == ExpectedPage(c.doc, j, c.page).height
            S[j \in 0..NR] == IF j = 0 THEN 0 ELSE S[j - 1] + w(j)
        IN  /\ c.width = S[NR]
            /\ \E j \in 1..NR : c.height = h(j)
            /\ \A j \in 1..NR : c.height >= h(j)

\* bordered pages 102x202, 150x300 and 80x90 give a composite 332x300
C6_Witness ==
    \E c \in persisted :
        /\ [j \in 1..NR |-> <<c.tiles[j].pixmap.width, c.tiles[j].pixmap.height>>]
               = << <<102, 202>>, <<150, 300>>, <<80, 90>> >>
        /\ c.width = 332
        /\ c.height = 300

\* C7: tile j of a persisted composite is the bordered page of the j-th
\* backend of the list, drawn at y = 0 and at an x equal to the sum of the
\* widths of the tiles of the backends before it, whatever the order in
\* which the renders ended.
C7_TileOrder ==
    \A c \in persisted :
        \A j \in 1..NR :
            LET w(q) == ExpectedPage(c.doc, q, c.page).width
                X[q \in 1..NR] == IF q = 1 THEN 0 ELSE X[q - 1] + w(q - 1)
            IN  /\ c.tiles[j].pixmap = ExpectedPage(c.doc, j, c.page)
                /\ c.tiles[j].pixmap.color = Color(Renderers[j])
                /\ c.tiles[j].x = X[j]
                /\ c.tiles[j].y = 0

\* a composite of pages of three widths whose renders ended last to first
C7_Witness ==
    \E c \in persisted :
        /\ completed[c.doc] = <<3, 2, 1>>
        /\ [j \in 1..NR |-> c.tiles[j].x] = <<0, 102, 252>>
        /\ [j \in 1..NR |-> c.tiles[j].pixmap.color]
               = [j \in 1..NR |-> Color(Renderers[j])]

\* the closure is over for document d
DocOver(d) == docst[d] \in {"done", "panicked"}

\* C10: when every backend has rendered a document, whatever the page
\* counts, the closure ends normally with exactly one composite persisted
\* for each page index below the page count of the first backend.
C10_FirstCountRules ==
    \A d \in Docs :
        (DocOver(d) /\ \A j \in 1..NR : rend[d][j] = "done")
            => /\ docst[d] = "done"
               /\ PersistedPages(d) = 0..(Len(rendered_pages[d][1]) - 1)
               /\ Cardinality({c \in persisted : c.doc = d})
                      = Len(rendered_pages[d][1])

----------------------------------------------------------------------------
(* Renderer::render_as_pixmap: results and failures *)

\* the variants of Renderer
AllRenderers == CliRenderers \cup {"Hayro"}

\* up to MaxPages pages, each a PNG of one of PageSizes or bytes that are no
\* PNG
PageLists ==
    UNION {[1..n -> PageSizes \cup {<<>>}] : n \in 0..MaxPages}

\* what self.render_as_png(buf, options) may give
PngOutcomes ==
    {ErrResult("failed to run renderer"), PanicResult("env::var")}
    \cup {OkResult(ps) : ps \in PageLists}

\* a call of render_as_pixmap, with border_width None or Some(1.0 / 50.0)
PixmapInit ==
    /\ call \in [r : AllRenderers, png : PngOutcomes,
                 border_width : {<<>>, BorderWidth}]
    /\ ret = NoResult
    /\ page = <<>>
    /\ pixmap = <<>>
    /\ BridgeIdle
    /\ MainIdle

\* the call runs to its return, or to its panic
CallRenderAsPixmap ==
    /\ call # <<>>
    /\ ret = NoResult
    /\ ret' = RenderAsPixmap(call.r, call.png, call.border_width)
    /\ UNCHANGED <<page, pixmap, call, bridgeVars, mainVars>>

PixmapNext == CallRenderAsPixmap

SpecPixmap == PixmapInit /\ [][PixmapNext]_vars

\* the backend gave pages, and one of them is no PNG
Undecodable ==
    /\ call # <<>>
    /\ call.png.kind = "Ok"
    /\ \E k \in DOMAIN call.png.pages : ~IsPng(call.png.pages[k])

\* C11: when a backend gives page bytes that cannot be decoded as PNG,
\* render_as_pixmap returns an error result to its caller instead of
\* aborting, whether a border fraction is given or not.
C11_DecodeFailedReturned ==
    (Undecodable /\ ret # NoResult) => ret.kind = "Err"

====
